---- MODULE Spec2Model ----
(***************************************************************************)
(* Model of the bounded-area and directional-traversal core of aoc-rs:     *)
(* Pos<T>, Direction, Area<T>, AreaIterator<T> and LineIterator<T>.        *)
(*                                                                         *)
(* The coordinate type T is a fixed-width integer.  The model scales it    *)
(* down: the signed type ranges over -(IMax+1)..IMax and the unsigned type *)
(* over 0..2*IMax+1, so with IMax = 3 both are 3-bit types (% 2^3).        *)
(* An arithmetic result outside T's range panics in a build with overflow  *)
(* checks ("debug") and wraps around in a build without ("release").       *)
(***************************************************************************)
EXTENDS Integers, Sequences, FiniteSets, TLC

VARIABLES
    build,   \* "debug" (overflow checks on) or "release" (wrapping arithmetic)
    signed,  \* TRUE: T is the signed type, FALSE: T is the unsigned type
    pc,      \* the operation applied last ("init" before any)
    args,    \* the four T arguments of a constructor call
    area,    \* the Area<T> a method is called on
    pos,     \* the Pos<T> argument / receiver
    dir,     \* the Direction argument / receiver
    dist,    \* the distance argument (usize for line_iter, T for the offsets)
    input,   \* the sequence of Pos<T> handed to filter_pos
    iter,    \* the iterator's fields (AreaIterator, LineIterator, or Filter)
    out,     \* the items the iterator has yielded so far, in order
    ret      \* what the last call returned

vars == <<build, signed, pc, args, area, pos, dir, dist, input, iter, out, ret>>

\* ------------------------------------------------------------------ bounds

\* T::MAX of the signed coordinate type, scaled down.
IMax == 3

\* Most items a run lets one iterator yield (an iterator that never ends
\* is cut off here).
MaxYield == 66

\* Longest chain of turns applied to one Direction.
MaxTurns == 4

\* Largest distance handed to line_iter.
MaxDist == 3

\* Longest input sequence handed to filter_pos.
MaxLen == 2

\* filter_pos is exercised with coordinates in -1..FilterHi.
FilterHi == 1

\* ------------------------------------------------- the coordinate type T

TMin(s) == IF s THEN -(IMax + 1) ELSE 0
TMax(s) == IF s THEN IMax ELSE 2 * IMax + 1
T(s) == TMin(s)..TMax(s)
Modulus == 2 * (IMax + 1)

\* Two's-complement wrap-around of a mathematical result into T.
Wrap(s, v) == ((v - TMin(s)) % Modulus) + TMin(s)

NoValue == "-"
Builds == {"debug", "release"}

\* A panicking call never returns; a returning one carries its value.
Panic == [tag |-> "Panic"]
Val(v) == [tag |-> "Val", val |-> v]
IsVal(r) == r.tag = "Val"

\* The result of a primitive +, - or * of T whose mathematical value is v.
Arith(s, b, v) ==
    IF v \in T(s) THEN Val(v)
    ELSE IF b = "debug" THEN Panic
    ELSE Val(Wrap(s, v))

Add(s, b, x, y) == Arith(s, b, x + y)
Sub(s, b, x, y) == Arith(s, b, x - y)
Mul(s, b, x, y) == Arith(s, b, x * y)

\* T::one()
One == 1

\* T::zero()
Zero == 0

\* Result<_, AreaBoundaryError> and Option<_>
Ok(v) == [tag |-> "Ok", val |-> v]
Err == [tag |-> "Err"]
Some(v) == [tag |-> "Some", val |-> v]
None == [tag |-> "None"]

\* ---------------------------------------------------------------- Pos<T>

Pos(x, y) == [x |-> x, y |-> y]
PosSet(s) == [x : T(s), y : T(s)]

\* ---------------------------------------------------------------- Area<T>

Area(max_x, max_y, min_x, min_y) ==
    [max_x |-> max_x, max_y |-> max_y, min_x |-> min_x, min_y |-> min_y]

\* Every value the struct can hold: its fields are public.
AreaSet(s) == [max_x : T(s), max_y : T(s), min_x : T(s), min_y : T(s)]

Area_new_lenient(max_x, max_y, min_x, min_y) ==
    IF max_x <= min_x \/ max_y < min_y
    THEN Err
    ELSE Ok(Area(max_x, max_y, min_x, min_y))

Area_new(max_x, max_y, min_x, min_y) ==
    IF max_x < min_x \/ max_y < min_y
    THEN Err
    ELSE Ok(Area(max_x, max_y, min_x, min_y))

Area_from_pos_swapped(top_left, bottom_right) ==
    IF bottom_right.y > top_left.y \/ bottom_right.x < top_left.x
    THEN Err
    ELSE Ok(Area(bottom_right.x, bottom_right.y, top_left.x, top_left.y))

Area_from_pos(top_left, bottom_right) ==
    IF bottom_right.y > top_left.y \/ bottom_right.x < top_left.x
    THEN Err
    ELSE Ok(Area(bottom_right.x, top_left.y, top_left.x, bottom_right.y))

Area_with_max_as_min(max_x, max_y) == Area_new(Zero, Zero, max_x, max_y)

Area_with_max(max_x, max_y) == Area_new(max_x, max_y, Zero, Zero)

\* ====================================================================
\* Constructors: Area::new, Area::from_pos, Area::with_max
\* ====================================================================

InitCtor ==
    /\ build = "release"
    /\ signed = TRUE
    /\ pc = "init"
    /\ args \in [1..4 -> T(TRUE)]
    /\ area = NoValue
    /\ pos = NoValue
    /\ dir = NoValue
    /\ dist = 0
    /\ input = <<>>
    /\ iter = NoValue
    /\ out = <<>>
    /\ ret = NoValue

New ==
    /\ pc = "init"
    /\ pc' = "new"
    /\ ret' = Area_new(args[1], args[2], args[3], args[4])
    /\ UNCHANGED <<build, signed, args, area, pos, dir, dist, input, iter, out>>

FromPos ==
    /\ pc = "init"
    /\ pc' = "from_pos"
    /\ ret' = Area_from_pos(Pos(args[1], args[2]), Pos(args[3], args[4]))
    /\ UNCHANGED <<build, signed, args, area, pos, dir, dist, input, iter, out>>

\* with_max takes the first two of the arguments in hand.
WithMax ==
    /\ pc = "init"
    /\ pc' = "with_max"
    /\ ret' = Area_with_max(args[1], args[2])
    /\ UNCHANGED <<build, signed, args, area, pos, dir, dist, input, iter, out>>

NextCtor == New \/ FromPos \/ WithMax

SpecCtor == InitCtor /\ [][NextCtor]_vars

\* C1: Area::new returns the boundary error iff max_x < min_x or
\* max_y < min_y; in every other case (max == min included) it returns Ok
\* with an Area whose four fields are exactly the four arguments.
C1_NewValidates ==
    pc = "new" =>
        /\ (ret = Err) <=> (args[1] < args[3] \/ args[2] < args[4])
        /\ ret # Err =>
            /\ ret.tag = "Ok"
            /\ ret.val.max_x = args[1]
            /\ ret.val.max_y = args[2]
            /\ ret.val.min_x = args[3]
            /\ ret.val.min_y = args[4]

\* Area::new has accepted a rectangle that is a single column (max_x == min_x).
C1_Witness ==
    /\ pc = "new"
    /\ ret.tag = "Ok"
    /\ args[1] = args[3]
    /\ args[2] > args[4]

\* C2: Area::from_pos fails with the boundary error iff
\* bottom_right.y > top_left.y or bottom_right.x < top_left.x; otherwise it
\* returns the Area with max_x = bottom_right.x, min_x = top_left.x,
\* max_y = top_left.y, min_y = bottom_right.y, and that Area has
\* min_x <= max_x and min_y <= max_y.
C2_FromPosValidates ==
    pc = "from_pos" =>
        /\ (ret = Err) <=> (args[4] > args[2] \/ args[3] < args[1])
        /\ ret # Err =>
            /\ ret.tag = "Ok"
            /\ ret.val.max_x = args[3]
            /\ ret.val.min_x = args[1]
            /\ ret.val.max_y = args[2]
            /\ ret.val.min_y = args[4]
            /\ ret.val.min_x <= ret.val.max_x
            /\ ret.val.min_y <= ret.val.max_y

\* Area::from_pos has accepted two distinct corners.
C2_Witness ==
    /\ pc = "from_pos"
    /\ ret.tag = "Ok"
    /\ args[1] < args[3]
    /\ args[4] < args[2]

\* ====================================================================
\* Queries: Area::has, Area::on_boundary
\* ====================================================================

Area_has_exclusive(a, p) ==
    p.x >= a.min_x /\ p.x < a.max_x /\ p.y >= a.min_y /\ p.y <= a.max_y

Area_has(a, p) ==
    p.x >= a.min_x /\ p.x <= a.max_x /\ p.y >= a.min_y /\ p.y <= a.max_y

Area_on_boundary_inside(a, p) ==
    /\ Area_has(a, p)
    /\ (p.x = a.max_x \/ p.x = a.min_x \/ p.y = a.max_y \/ p.y = a.min_y)

Area_on_boundary(a, p) ==
    p.x = a.max_x \/ p.x = a.min_x \/ p.y = a.max_y \/ p.y = a.min_y

InitQuery ==
    /\ build = "release"
    /\ signed = TRUE
    /\ pc = "init"
    /\ args = NoValue
    /\ area \in AreaSet(TRUE)
    /\ pos \in PosSet(TRUE)
    /\ dir = NoValue
    /\ dist = 0
    /\ input = <<>>
    /\ iter = NoValue
    /\ out = <<>>
    /\ ret = NoValue

Has ==
    /\ pc = "init"
    /\ pc' = "has"
    /\ ret' = Area_has(area, pos)
    /\ UNCHANGED <<build, signed, args, area, pos, dir, dist, input, iter, out>>

OnBoundary ==
    /\ pc = "init"
    /\ pc' = "on_boundary"
    /\ ret' = Area_on_boundary(area, pos)
    /\ UNCHANGED <<build, signed, args, area, pos, dir, dist, input, iter, out>>

NextQuery == Has \/ OnBoundary

SpecQuery == InitQuery /\ [][NextQuery]_vars

\* C3: has(p) is true iff min_x <= p.x <= max_x and min_y <= p.y <= max_y,
\* both ends inclusive on both axes: the four corner points are contained
\* and a point one unit outside any edge is not.
C3_HasInclusive ==
    pc = "has" =>
        /\ ret <=> (pos.x \in area.min_x..area.max_x /\ pos.y \in area.min_y..area.max_y)
        /\ (pos.x \in {area.min_x, area.max_x} /\ pos.y \in {area.min_y, area.max_y}
            /\ area.min_x <= area.max_x /\ area.min_y <= area.max_y) => ret
        /\ (pos.x = area.max_x + 1 \/ pos.x = area.min_x - 1
            \/ pos.y = area.max_y + 1 \/ pos.y = area.min_y - 1) => ~ret

\* has was asked about the top-right corner of a rectangle wider and taller
\* than one point, and answered true.
C3_Witness ==
    /\ pc = "has"
    /\ area.min_x < area.max_x
    /\ area.min_y < area.max_y
    /\ pos = Pos(area.max_x, area.max_y)
    /\ ret

\* C7: on_boundary(p) is true iff p.x == max_x or p.x == min_x or
\* p.y == max_y or p.y == min_y, whether or not has(p) holds; a position
\* outside the area on one axis but on an edge line of the other axis is
\* reported as on the boundary.
C7_OnBoundaryAnyEdgeLine ==
    pc = "on_boundary" =>
        /\ ret <=> (pos.x \in {area.max_x, area.min_x} \/ pos.y \in {area.max_y, area.min_y})
        /\ (~Area_has(area, pos) /\ pos.x > area.max_x /\ pos.y = area.min_y) => ret

\* on_boundary answered true for a position right of a well-formed area,
\* level with its bottom edge.
C7_Witness ==
    /\ pc = "on_boundary"
    /\ area.min_x <= area.max_x
    /\ area.min_y < area.max_y
    /\ pos.x > area.max_x
    /\ pos.y = area.min_y
    /\ ~Area_has(area, pos)
    /\ ret

\* ====================================================================
\* Area::filter_pos: pos.into_iter().filter(|p| self.has(p))
\* ====================================================================

FilterCoords == -1..FilterHi

SeqsUpTo(S, n) == UNION {[1..k -> S] : k \in 0..n}

\* Indices of the items of rest the closure accepts.
Accepted(a, rest) == {i \in 1..Len(rest) : Area_has(a, rest[i])}

Min(S) == CHOOSE m \in S : \A k \in S : m <= k

Filter_next_take_while(a, rest) ==
    IF rest = <<>> \/ ~Area_has(a, Head(rest))
    THEN [ret |-> None, rest |-> <<>>]
    ELSE [ret |-> Some(Head(rest)), rest |-> Tail(rest)]

\* Filter::next: pull items from the inner iterator until the closure
\* accepts one; None once the inner iterator is exhausted.
Filter_next(a, rest) ==
    IF Accepted(a, rest) = {}
    THEN [ret |-> None, rest |-> <<>>]
    ELSE LET i == Min(Accepted(a, rest))
         IN [ret |-> Some(rest[i]), rest |-> SubSeq(rest, i + 1, Len(rest))]

InitFilter ==
    /\ build = "release"
    /\ signed = TRUE
    /\ pc = "init"
    /\ args = NoValue
    /\ area \in [max_x : FilterCoords, max_y : FilterCoords,
                 min_x : FilterCoords, min_y : FilterCoords]
    /\ pos = NoValue
    /\ dir = NoValue
    /\ dist = 0
    /\ input \in SeqsUpTo([x : FilterCoords, y : FilterCoords], MaxLen)
    /\ iter = NoValue
    /\ out = <<>>
    /\ ret = NoValue

\* filter_pos only builds the lazy adapter: nothing is consumed yet.
FilterPos ==
    /\ pc = "init"
    /\ pc' = "filter_pos"
    /\ iter' = input
    /\ UNCHANGED <<build, signed, args, area, pos, dir, dist, input, out, ret>>

FilterNext ==
    /\ pc \in {"filter_pos", "filter_next"}
    /\ pc' = "filter_next"
    /\ LET r == Filter_next(area, iter)
       IN /\ ret' = r.ret
          /\ iter' = r.rest
          /\ out' = IF r.ret = None THEN out ELSE Append(out, r.ret.val)
    /\ UNCHANGED <<build, signed, args, area, pos, dir, dist, input>>

NextFilter == FilterPos \/ FilterNext

SpecFilter == InitFilter /\ [][NextFilter]_vars

\* Containment stated on intervals, for the claims' formulas.
InRect(a, e) == e.x \in a.min_x..a.max_x /\ e.y \in a.min_y..a.max_y
InArea(e) == InRect(area, e)

\* C6: filter_pos yields exactly the subsequence of the input made of the
\* positions p with has(p): input order is preserved, duplicates keep
\* their multiplicity, and no position absent from the input is produced.
C6_FilterIsSubsequence ==
    /\ pc = "filter_next" =>
        out \o SelectSeq(iter, InArea) = SelectSeq(input, InArea)
    /\ (pc = "filter_next" /\ ret = None) =>
        out = SelectSeq(input, InArea)

\* The filter is exhausted after dropping the first of two input positions
\* and yielding the second.
C6_Witness ==
    /\ pc = "filter_next"
    /\ ret = None
    /\ Len(input) = 2
    /\ ~InArea(input[1])
    /\ out = <<input[2]>>

\* ====================================================================
\* Dimensions: Area::rows, Area::cols, Area::size
\* ====================================================================

Area_rows_exclusive(s, b, a) ==
    Sub(s, b, a.max_y, a.min_y)

\* self.max_y - self.min_y + T::one()
Area_rows(s, b, a) ==
    LET d == Sub(s, b, a.max_y, a.min_y)
    IN IF IsVal(d) THEN Add(s, b, d.val, One) ELSE Panic

\* self.max_x - self.min_x + T::one()
Area_cols(s, b, a) ==
    LET d == Sub(s, b, a.max_x, a.min_x)
    IN IF IsVal(d) THEN Add(s, b, d.val, One) ELSE Panic

\* self.rows() * self.cols()
Area_size(s, b, a) ==
    LET r == Area_rows(s, b, a)
        c == Area_cols(s, b, a)
    IN IF IsVal(r) /\ IsVal(c) THEN Mul(s, b, r.val, c.val) ELSE Panic

InitDims ==
    /\ build \in Builds
    /\ signed \in BOOLEAN
    /\ pc = "init"
    /\ args = NoValue
    /\ area \in AreaSet(signed)
    /\ pos = NoValue
    /\ dir = NoValue
    /\ dist = 0
    /\ input = <<>>
    /\ iter = NoValue
    /\ out = <<>>
    /\ ret = NoValue

Rows ==
    /\ pc = "init"
    /\ pc' = "rows"
    /\ ret' = Area_rows(signed, build, area)
    /\ UNCHANGED <<build, signed, args, area, pos, dir, dist, input, iter, out>>

Cols ==
    /\ pc = "init"
    /\ pc' = "cols"
    /\ ret' = Area_cols(signed, build, area)
    /\ UNCHANGED <<build, signed, args, area, pos, dir, dist, input, iter, out>>

Size ==
    /\ pc = "init"
    /\ pc' = "size"
    /\ ret' = Area_size(signed, build, area)
    /\ UNCHANGED <<build, signed, args, area, pos, dir, dist, input, iter, out>>

NextDims == Rows \/ Cols \/ Size

SpecDims == InitDims /\ [][NextDims]_vars

WellFormed(a) == a.min_x <= a.max_x /\ a.min_y <= a.max_y

\* The inclusive counts, as mathematical integers.
RowCount(a) == a.max_y - a.min_y + 1
ColCount(a) == a.max_x - a.min_x + 1
PosCount(s, a) == Cardinality({p \in PosSet(s) : InRect(a, p)})

\* C8 as stated: for every Area with min <= max on both axes,
\* rows() == max_y - min_y + 1, cols() == max_x - min_x + 1,
\* size() == rows() * cols() == the number of positions p with has(p),
\* and all three are at least 1.
C8_DimsAsStated ==
    WellFormed(area) =>
        /\ pc = "rows" => ret = Val(RowCount(area)) /\ RowCount(area) >= 1
        /\ pc = "cols" => ret = Val(ColCount(area)) /\ ColCount(area) >= 1
        /\ pc = "size" =>
            /\ ret = Val(RowCount(area) * ColCount(area))
            /\ ret = Val(PosCount(signed, area))

\* C8 (amended): for every Area with min <= max on both axes, each of
\* rows(), cols() and size() returns the inclusive count it stands for
\* (max_y - min_y + 1, max_x - min_x + 1, and their product, which is the
\* number of positions p with has(p), all at least 1) whenever that count
\* is at most T::MAX; when it is larger the call panics in a build with
\* overflow checks and returns the count wrapped around T otherwise.
C8_DimsWhenRepresentable ==
    WellFormed(area) =>
        /\ pc = "rows" =>
            /\ RowCount(area) >= 1
            /\ RowCount(area) <= TMax(signed) => ret = Val(RowCount(area))
            /\ RowCount(area) > TMax(signed) =>
                ret = IF build = "debug" THEN Panic ELSE Val(Wrap(signed, RowCount(area)))
        /\ pc = "cols" =>
            /\ ColCount(area) >= 1
            /\ ColCount(area) <= TMax(signed) => ret = Val(ColCount(area))
            /\ ColCount(area) > TMax(signed) =>
                ret = IF build = "debug" THEN Panic ELSE Val(Wrap(signed, ColCount(area)))
        /\ pc = "size" =>
            /\ PosCount(signed, area) = RowCount(area) * ColCount(area)
            /\ PosCount(signed, area) >= 1
            /\ PosCount(signed, area) <= TMax(signed) => ret = Val(PosCount(signed, area))
            /\ PosCount(signed, area) > TMax(signed) =>
                ret = IF build = "debug" THEN Panic ELSE Val(Wrap(signed, PosCount(signed, area)))

\* size() has returned 3 for an area of three rows and one column.
C8_Witness ==
    /\ pc = "size"
    /\ WellFormed(area)
    /\ RowCount(area) = 3
    /\ ColCount(area) = 1
    /\ ret = Val(3)

\* ====================================================================
\* AreaIterator: Area::into_iter and AreaIterator::next
\* ====================================================================

AreaIterator(a, current_x, current_y) ==
    [area |-> a, current_x |-> current_x, current_y |-> current_y]

Area_into_iter(a) == AreaIterator(a, a.min_x, a.min_y)

AreaIterator_next_restarting(s, b, it) ==
    IF it.current_y > it.area.max_y
    THEN [ret |-> None, it |-> Area_into_iter(it.area)]
    ELSE LET result == Pos(it.current_x, it.current_y)
         IN IF it.current_x >= it.area.max_x
            THEN LET y == Add(s, b, it.current_y, One)
                 IN IF IsVal(y)
                    THEN [ret |-> Some(result),
                          it |-> AreaIterator(it.area, it.area.min_x, y.val)]
                    ELSE [ret |-> Panic,
                          it |-> AreaIterator(it.area, it.area.min_x, it.current_y)]
            ELSE LET x == Add(s, b, it.current_x, One)
                 IN IF IsVal(x)
                    THEN [ret |-> Some(result),
                          it |-> AreaIterator(it.area, x.val, it.current_y)]
                    ELSE [ret |-> Panic, it |-> it]

\* One call of next: what it returns and the fields it leaves behind.  A
\* panic in `self.current_y + T::one()` comes after current_x was reset.
AreaIterator_next(s, b, it) ==
    IF it.current_y > it.area.max_y
    THEN [ret |-> None, it |-> it]
    ELSE LET result == Pos(it.current_x, it.current_y)
         IN IF it.current_x >= it.area.max_x
            THEN LET y == Add(s, b, it.current_y, One)
                 IN IF IsVal(y)
                    THEN [ret |-> Some(result),
                          it |-> AreaIterator(it.area, it.area.min_x, y.val)]
                    ELSE [ret |-> Panic,
                          it |-> AreaIterator(it.area, it.area.min_x, it.current_y)]
            ELSE LET x == Add(s, b, it.current_x, One)
                 IN IF IsVal(x)
                    THEN [ret |-> Some(result),
                          it |-> AreaIterator(it.area, x.val, it.current_y)]
                    ELSE [ret |-> Panic, it |-> it]

InitIter ==
    /\ build \in Builds
    /\ signed \in BOOLEAN
    /\ pc = "init"
    /\ args = NoValue
    /\ area \in AreaSet(signed)
    /\ pos = NoValue
    /\ dir = NoValue
    /\ dist = 0
    /\ input = <<>>
    /\ iter = NoValue
    /\ out = <<>>
    /\ ret = NoValue

IntoIter ==
    /\ pc = "init"
    /\ pc' = "into_iter"
    /\ iter' = Area_into_iter(area)
    /\ UNCHANGED <<build, signed, args, area, pos, dir, dist, input, out, ret>>

\* A call of next on the live iterator; a panicked call ends the run.
IterNext ==
    /\ pc \in {"into_iter", "next"}
    /\ Len(out) < MaxYield
    /\ LET r == AreaIterator_next(signed, build, iter)
       IN /\ ret' = r.ret
          /\ iter' = r.it
          /\ out' = IF r.ret.tag = "Some" THEN Append(out, r.ret.val) ELSE out
          /\ pc' = IF r.ret = Panic THEN "panicked" ELSE "next"
    /\ UNCHANGED <<build, signed, args, area, pos, dir, dist, input>>

NextIter == IntoIter \/ IterNext

SpecIter == InitIter /\ [][NextIter]_vars

\* The k-th position (k from 0) of the row-major walk of a.
RowMajor(a, k) == Pos(a.min_x + (k % ColCount(a)), a.min_y + (k \div ColCount(a)))

\* C4 as stated: for every Area with min <= max on both axes, next() yields
\* exactly rows*cols positions before the first None, the k-th of them
\* (k from 0) being (min_x + k mod cols, min_y + k div cols).
C4_RowMajorAsStated ==
    (pc \in {"next", "panicked"} /\ WellFormed(area)) =>
        /\ ret # Panic
        /\ Len(out) <= RowCount(area) * ColCount(area)
        /\ ret = None => Len(out) = RowCount(area) * ColCount(area)
        /\ \A k \in 1..Len(out) : out[k] = RowMajor(area, k - 1)

\* The same statement for the areas that stop short of T::MAX on the y
\* axis, where `current_y + 1` never leaves T: there it holds.
C4_RowMajorBelowMaxY ==
    (pc \in {"next", "panicked"} /\ WellFormed(area) /\ area.max_y < TMax(signed)) =>
        /\ ret # Panic
        /\ Len(out) <= RowCount(area) * ColCount(area)
        /\ ret = None =>
            /\ Len(out) = RowCount(area) * ColCount(area)
            /\ \A q \in PosSet(signed) :
                InRect(area, q) <=> Cardinality({k \in 1..Len(out) : out[k] = q}) = 1
        /\ \A k \in 1..Len(out) : out[k] = RowMajor(area, k - 1)

\* An area of two rows and three columns has been walked to the end.
C4_Witness ==
    /\ pc = "next"
    /\ ret = None
    /\ RowCount(area) = 2
    /\ ColCount(area) = 3
    /\ Len(out) = 6

\* ====================================================================
\* Direction and the directional offsets of Pos<T>
\* ====================================================================

Direction_all ==
    <<"Up", "Down", "Left", "Right", "TopLeft", "TopRight", "BottomLeft", "BottomRight">>
Direction_cross == <<"Up", "Down", "Left", "Right">>
Direction_diagonal == <<"TopLeft", "TopRight", "BottomLeft", "BottomRight">>
Direction == {Direction_all[i] : i \in 1..Len(Direction_all)}

\* Self { x, y } from two component results: it panics if either does,
\* x being evaluated first.
MkPos(x, y) == IF IsVal(x) /\ IsVal(y) THEN Val(Pos(x.val, y.val)) ELSE Panic

Pos_up(s, b, p, distance) == MkPos(Val(p.x), Add(s, b, p.y, distance))
Pos_down(s, b, p, distance) == MkPos(Val(p.x), Sub(s, b, p.y, distance))
Pos_left(s, b, p, distance) == MkPos(Sub(s, b, p.x, distance), Val(p.y))
Pos_right(s, b, p, distance) == MkPos(Add(s, b, p.x, distance), Val(p.y))
Pos_top_left(s, b, p, distance) ==
    MkPos(Sub(s, b, p.x, distance), Add(s, b, p.y, distance))
Pos_top_right(s, b, p, distance) ==
    MkPos(Add(s, b, p.x, distance), Add(s, b, p.y, distance))
Pos_bottom_left(s, b, p, distance) ==
    MkPos(Sub(s, b, p.x, distance), Sub(s, b, p.y, distance))
Pos_bottom_right(s, b, p, distance) ==
    MkPos(Add(s, b, p.x, distance), Sub(s, b, p.y, distance))

Pos_destination_crossed(s, b, p, distance, direction) ==
    CASE direction = "Up" -> Pos_up(s, b, p, distance)
      [] direction = "Down" -> Pos_down(s, b, p, distance)
      [] direction = "Left" -> Pos_left(s, b, p, distance)
      [] direction = "Right" -> Pos_right(s, b, p, distance)
      [] direction = "TopLeft" -> Pos_top_right(s, b, p, distance)
      [] direction = "TopRight" -> Pos_top_left(s, b, p, distance)
      [] direction = "BottomLeft" -> Pos_bottom_left(s, b, p, distance)
      [] direction = "BottomRight" -> Pos_bottom_right(s, b, p, distance)

Pos_destination(s, b, p, distance, direction) ==
    CASE direction = "Up" -> Pos_up(s, b, p, distance)
      [] direction = "Down" -> Pos_down(s, b, p, distance)
      [] direction = "Left" -> Pos_left(s, b, p, distance)
      [] direction = "Right" -> Pos_right(s, b, p, distance)
      [] direction = "TopLeft" -> Pos_top_left(s, b, p, distance)
      [] direction = "TopRight" -> Pos_top_right(s, b, p, distance)
      [] direction = "BottomLeft" -> Pos_bottom_left(s, b, p, distance)
      [] direction = "BottomRight" -> Pos_bottom_right(s, b, p, distance)

\* ====================================================================
\* LineIterator: Pos::line_iter and LineIterator::next
\* ====================================================================

LineIterator(current, direction, distance) ==
    [current |-> current, direction |-> direction, distance |-> distance]

Pos_line_iter(p, distance, direction) == LineIterator(p, direction, distance)

\* One call of next: what it returns and the fields it leaves behind.  The
\* next position is computed before the current one is returned; a panic
\* there leaves the fields as they were.
LineIterator_next_drifting(s, b, it) ==
    LET result == it.current
        nxt == Pos_destination(s, b, it.current, One, it.direction)
    IN  IF ~IsVal(nxt) THEN [ret |-> Panic, it |-> it]
        ELSE IF it.distance = 0
        THEN [ret |-> None, it |-> LineIterator(nxt.val, it.direction, it.distance)]
        ELSE [ret |-> Some(result),
              it |-> LineIterator(nxt.val, it.direction, it.distance - 1)]

LineIterator_next(s, b, it) ==
    IF it.distance = 0
    THEN [ret |-> None, it |-> it]
    ELSE LET result == it.current
             nxt == Pos_destination(s, b, it.current, One, it.direction)
         IN IF IsVal(nxt)
            THEN [ret |-> Some(result),
                  it |-> LineIterator(nxt.val, it.direction, it.distance - 1)]
            ELSE [ret |-> Panic, it |-> it]

InitLine ==
    /\ build \in Builds
    /\ signed \in BOOLEAN
    /\ pc = "init"
    /\ args = NoValue
    /\ area = NoValue
    /\ pos \in PosSet(signed)
    /\ dir \in Direction
    /\ dist \in 0..MaxDist
    /\ input = <<>>
    /\ iter = NoValue
    /\ out = <<>>
    /\ ret = NoValue

LineIter ==
    /\ pc = "init"
    /\ pc' = "line_iter"
    /\ iter' = Pos_line_iter(pos, dist, dir)
    /\ UNCHANGED <<build, signed, args, area, pos, dir, dist, input, out, ret>>

\* A call of next on the live iterator; a panicked call ends the run.
LineNext ==
    /\ pc \in {"line_iter", "next"}
    /\ LET r == LineIterator_next(signed, build, iter)
       IN /\ ret' = r.ret
          /\ iter' = r.it
          /\ out' = IF r.ret.tag = "Some" THEN Append(out, r.ret.val) ELSE out
          /\ pc' = IF r.ret = Panic THEN "panicked" ELSE "next"
    /\ UNCHANGED <<build, signed, args, area, pos, dir, dist, input>>

NextLine == LineIter \/ LineNext

SpecLine == InitLine /\ [][NextLine]_vars

\* C5 as stated: for every start p, direction d and count n,
\* p.line_iter(n, d) yields exactly n positions before its first None, the
\* k-th of them (k from 0) being p.destination(k, d).
C5_LineAsStated ==
    pc \in {"next", "panicked"} =>
        /\ ret # Panic
        /\ Len(out) <= dist
        /\ ret = None => Len(out) = dist
        /\ \A k \in 1..Len(out) :
            Pos_destination(signed, build, pos, k - 1, dir) = Val(out[k])

\* Every position the walk computes, the one past the last item included.
LineStaysInT ==
    \A k \in 0..dist :
        Pos_destination(signed, "debug", pos, k, dir) # Panic

\* The same statement where no coordinate the iterator computes leaves T
\* (or the build wraps instead of panicking): there it holds.
C5_LineInsideT ==
    (pc \in {"next", "panicked"} /\ (build = "release" \/ LineStaysInT)) =>
        /\ ret # Panic
        /\ Len(out) <= dist
        /\ ret = None => Len(out) = dist
        /\ \A k \in 1..Len(out) :
            Pos_destination(signed, build, pos, k - 1, dir) = Val(out[k])

\* A walk of three steps to the top left has ended.
C5_Witness ==
    /\ pc = "next"
    /\ ret = None
    /\ dir = "TopLeft"
    /\ Len(out) = 3

\* ====================================================================
\* Direction::turn_back, turn_left, turn_right
\* ====================================================================

Direction_turn_back_mirrored(d) ==
    CASE d = "Up" -> "Down"
      [] d = "Down" -> "Up"
      [] d = "Left" -> "Right"
      [] d = "Right" -> "Left"
      [] d = "TopLeft" -> "BottomLeft"
      [] d = "TopRight" -> "BottomRight"
      [] d = "BottomLeft" -> "TopRight"
      [] d = "BottomRight" -> "TopLeft"

Direction_turn_back(d) ==
    CASE d = "Up" -> "Down"
      [] d = "Down" -> "Up"
      [] d = "Left" -> "Right"
      [] d = "Right" -> "Left"
      [] d = "TopLeft" -> "BottomRight"
      [] d = "TopRight" -> "BottomLeft"
      [] d = "BottomLeft" -> "TopRight"
      [] d = "BottomRight" -> "TopLeft"

Direction_turn_left_slip(d) ==
    CASE d = "Up" -> "Left"
      [] d = "Down" -> "Right"
      [] d = "Left" -> "Down"
      [] d = "Right" -> "Up"
      [] d = "TopLeft" -> "BottomLeft"
      [] d = "TopRight" -> "TopLeft"
      [] d = "BottomLeft" -> "TopLeft"
      [] d = "BottomRight" -> "TopRight"

Direction_turn_left(d) ==
    CASE d = "Up" -> "Left"
      [] d = "Down" -> "Right"
      [] d = "Left" -> "Down"
      [] d = "Right" -> "Up"
      [] d = "TopLeft" -> "BottomLeft"
      [] d = "TopRight" -> "TopLeft"
      [] d = "BottomLeft" -> "BottomRight"
      [] d = "BottomRight" -> "TopRight"

Direction_turn_right_diagonal_left(d) ==
    CASE d = "Up" -> "Right"
      [] d = "Down" -> "Left"
      [] d = "Left" -> "Up"
      [] d = "Right" -> "Down"
      [] d = "TopLeft" -> "BottomLeft"
      [] d = "TopRight" -> "TopLeft"
      [] d = "BottomLeft" -> "BottomRight"
      [] d = "BottomRight" -> "TopRight"

Direction_turn_right(d) ==
    CASE d = "Up" -> "Right"
      [] d = "Down" -> "Left"
      [] d = "Left" -> "Up"
      [] d = "Right" -> "Down"
      [] d = "TopLeft" -> "TopRight"
      [] d = "TopRight" -> "BottomRight"
      [] d = "BottomLeft" -> "TopLeft"
      [] d = "BottomRight" -> "BottomLeft"

\* Where a chain of turns stands: before the first turn or after one.
Turning == {"init", "turn_back", "turn_left", "turn_right"}

\* dir is the Direction in hand, out the Directions it was before each
\* turn, input the names of the turns taken, in order.
InitDir ==
    /\ build = "release"
    /\ signed = TRUE
    /\ pc = "init"
    /\ args = NoValue
    /\ area = NoValue
    /\ pos = NoValue
    /\ dir \in Direction
    /\ dist = 0
    /\ input = <<>>
    /\ iter = NoValue
    /\ out = <<>>
    /\ ret = NoValue

TurnBack ==
    /\ pc \in Turning
    /\ Len(out) < MaxTurns
    /\ pc' = "turn_back"
    /\ dir' = Direction_turn_back(dir)
    /\ out' = Append(out, dir)
    /\ input' = Append(input, "turn_back")
    /\ UNCHANGED <<build, signed, args, area, pos, dist, iter, ret>>

TurnLeft ==
    /\ pc \in Turning
    /\ Len(out) < MaxTurns
    /\ pc' = "turn_left"
    /\ dir' = Direction_turn_left(dir)
    /\ out' = Append(out, dir)
    /\ input' = Append(input, "turn_left")
    /\ UNCHANGED <<build, signed, args, area, pos, dist, iter, ret>>

TurnRight ==
    /\ pc \in Turning
    /\ Len(out) < MaxTurns
    /\ pc' = "turn_right"
    /\ dir' = Direction_turn_right(dir)
    /\ out' = Append(out, dir)
    /\ input' = Append(input, "turn_right")
    /\ UNCHANGED <<build, signed, args, area, pos, dist, iter, ret>>

NextDir == TurnBack \/ TurnLeft \/ TurnRight

SpecDir == InitDir /\ [][NextDir]_vars

\* The last two turns taken, oldest first (<<>> when fewer were taken).
LastTwoTurns ==
    IF Len(input) >= 2 THEN SubSeq(input, Len(input) - 1, Len(input)) ELSE <<>>

\* The Direction in hand before the last two turns.
TwoTurnsAgo == out[Len(out) - 1]

Cardinal == {"Up", "Down", "Left", "Right"}
Diagonal == {"TopLeft", "TopRight", "BottomLeft", "BottomRight"}

\* C9: turn_back is an involution without fixed points: turning back twice
\* gives the Direction started from, turning back once never gives the same
\* Direction, and turn_back maps cardinal directions to cardinal ones and
\* diagonal directions to diagonal ones.
C9_TurnBackInvolution ==
    /\ pc = "turn_back" =>
        /\ dir # out[Len(out)]
        /\ out[Len(out)] \in Cardinal => dir \in Cardinal
        /\ out[Len(out)] \in Diagonal => dir \in Diagonal
    /\ LastTwoTurns = <<"turn_back", "turn_back">> => dir = TwoTurnsAgo

\* A diagonal Direction has been turned back twice.
C9_Witness ==
    /\ LastTwoTurns = <<"turn_back", "turn_back">>
    /\ TwoTurnsAgo \in Diagonal
    /\ dir = TwoTurnsAgo

\* C10: turn_left and turn_right are mutual inverses: a right turn followed
\* by a left turn, and a left turn followed by a right turn, both give the
\* Direction started from.
C10_LeftRightInverse ==
    /\ LastTwoTurns = <<"turn_right", "turn_left">> => dir = TwoTurnsAgo
    /\ LastTwoTurns = <<"turn_left", "turn_right">> => dir = TwoTurnsAgo

\* A diagonal Direction has been turned left and then right.
C10_Witness ==
    /\ LastTwoTurns = <<"turn_left", "turn_right">>
    /\ TwoTurnsAgo = "BottomLeft"
    /\ dir = "BottomLeft"

\* ====================================================================
\* Pos::destination, Pos::neighbours, Pos::neighbours_diag
\* ====================================================================

\* [a, b, c, d]: the array expression panics if an element does.
MkArr4(a, b, c, d) ==
    IF IsVal(a) /\ IsVal(b) /\ IsVal(c) /\ IsVal(d)
    THEN Val(<<a.val, b.val, c.val, d.val>>)
    ELSE Panic

Pos_neighbours_clockwise(s, b, p, distance) ==
    MkArr4(Pos_up(s, b, p, distance), Pos_right(s, b, p, distance),
           Pos_down(s, b, p, distance), Pos_left(s, b, p, distance))

Pos_neighbours(s, b, p, distance) ==
    MkArr4(Pos_up(s, b, p, distance), Pos_down(s, b, p, distance),
           Pos_left(s, b, p, distance), Pos_right(s, b, p, distance))

Pos_neighbours_diag(s, b, p, distance) ==
    MkArr4(Pos_top_left(s, b, p, distance), Pos_top_right(s, b, p, distance),
           Pos_bottom_left(s, b, p, distance), Pos_bottom_right(s, b, p, distance))

\* A position, a distance of type T and a direction to go.
InitPos ==
    /\ build \in Builds
    /\ signed \in BOOLEAN
    /\ pc = "ready"
    /\ args = NoValue
    /\ area = NoValue
    /\ pos \in PosSet(signed)
    /\ dir \in Direction
    /\ dist \in T(signed)
    /\ input = <<>>
    /\ iter = NoValue
    /\ out = <<>>
    /\ ret = NoValue

Destination ==
    /\ pc = "ready"
    /\ pc' = "destination"
    /\ ret' = Pos_destination(signed, build, pos, dist, dir)
    /\ UNCHANGED <<build, signed, args, area, pos, dir, dist, input, iter, out>>

Neighbours ==
    /\ pc = "ready"
    /\ pc' = "neighbours"
    /\ ret' = Pos_neighbours(signed, build, pos, dist)
    /\ UNCHANGED <<build, signed, args, area, pos, dir, dist, input, iter, out>>

NeighboursDiag ==
    /\ pc = "ready"
    /\ pc' = "neighbours_diag"
    /\ ret' = Pos_neighbours_diag(signed, build, pos, dist)
    /\ UNCHANGED <<build, signed, args, area, pos, dir, dist, input, iter, out>>

\* p.destination(k, d).destination(k, d.turn_back()): the second call, made
\* on what the first returned.
DestinationBack ==
    /\ pc = "destination"
    /\ IsVal(ret)
    /\ pc' = "destination_back"
    /\ ret' = Pos_destination(signed, build, ret.val, dist, Direction_turn_back(dir))
    /\ UNCHANGED <<build, signed, args, area, pos, dir, dist, input, iter, out>>

NextPos == Destination \/ Neighbours \/ NeighboursDiag \/ DestinationBack

SpecPos == InitPos /\ [][NextPos]_vars

\* The unit offset (dx, dy) of each Direction, y pointing up.
UnitOffset(d) ==
    CASE d = "Up" -> Pos(0, 1)
      [] d = "Down" -> Pos(0, -1)
      [] d = "Left" -> Pos(-1, 0)
      [] d = "Right" -> Pos(1, 0)
      [] d = "TopLeft" -> Pos(-1, 1)
      [] d = "TopRight" -> Pos(1, 1)
      [] d = "BottomLeft" -> Pos(-1, -1)
      [] d = "BottomRight" -> Pos(1, -1)

\* p moved k units along d, as mathematical integers.
Moved(p, k, d) == Pos(p.x + k * UnitOffset(d).x, p.y + k * UnitOffset(d).y)

InT(s, q) == q.x \in T(s) /\ q.y \in T(s)

\* What a call whose mathematical result is q gives in T: q itself when it
\* fits, else a panic (overflow checks) or q wrapped around T.
Fitted(s, b, q) ==
    IF InT(s, q) THEN Val(q)
    ELSE IF b = "debug" THEN Panic
    ELSE Val(Pos(Wrap(s, q.x), Wrap(s, q.y)))

\* C11 as stated: for every position (x, y) and distance k, destination(k, d)
\* is (x, y+k) for Up, (x, y-k) for Down, (x-k, y) for Left, (x+k, y) for
\* Right, (x-k, y+k) for TopLeft, (x+k, y+k) for TopRight, (x-k, y-k) for
\* BottomLeft and (x+k, y-k) for BottomRight; distance 0 gives the position.
C11_DestinationAsStated ==
    pc = "destination" =>
        /\ ret = Val(Moved(pos, dist, dir))
        /\ dist = 0 => ret = Val(pos)

\* C11 (amended): destination(k, d) is the stated position whenever both
\* of its coordinates lie in T's range (distance 0 always gives the
\* position itself); when one does not, the call panics in a build with
\* overflow checks and otherwise returns the coordinates wrapped around T.
C11_DestinationWhenRepresentable ==
    pc = "destination" =>
        /\ ret = Fitted(signed, build, Moved(pos, dist, dir))
        /\ InT(signed, Moved(pos, dist, dir)) => ret = Val(Moved(pos, dist, dir))
        /\ dist = 0 => ret = Val(pos)

\* destination has gone two units to the bottom right and stayed inside T.
C11_Witness ==
    /\ pc = "destination"
    /\ dir = "BottomRight"
    /\ dist = 2
    /\ ret = Val(Pos(pos.x + 2, pos.y - 2))

\* The i-th Direction of a list, applied to the position and distance in hand.
DestinationAt(dirs, i) == Pos_destination(signed, build, pos, dist, dirs[i])

\* C12 as stated: neighbours(k) is the list [up, down, left, right] whose
\* i-th element is p.destination(k, cross()[i]), neighbours_diag(k) is
\* [top-left, top-right, bottom-left, bottom-right] whose i-th element is
\* p.destination(k, diagonal()[i]), and all() is cross() followed by
\* diagonal() with no direction repeated.
C12_OrdersAsStated ==
    /\ pc = "neighbours" =>
        /\ IsVal(ret)
        /\ Len(ret.val) = 4
        /\ \A i \in 1..4 : DestinationAt(Direction_cross, i) = Val(ret.val[i])
    /\ pc = "neighbours_diag" =>
        /\ IsVal(ret)
        /\ Len(ret.val) = 4
        /\ \A i \in 1..4 : DestinationAt(Direction_diagonal, i) = Val(ret.val[i])
    /\ Direction_all = Direction_cross \o Direction_diagonal
    /\ Cardinality({Direction_all[i] : i \in 1..Len(Direction_all)}) = 8

\* C12 (amended): whenever neighbours(k) / neighbours_diag(k) returns, it is
\* the 4-element list whose i-th element is p.destination(k, cross()[i]) /
\* p.destination(k, diagonal()[i]), in the orders [up, down, left, right] /
\* [top-left, top-right, bottom-left, bottom-right]; the call panics exactly
\* when one of those four destination calls does (an offset leaves T in a
\* build with overflow checks).  all() is cross() followed by diagonal()
\* with no direction repeated.
C12_OrdersWhenReturned ==
    /\ pc = "neighbours" =>
        /\ IsVal(ret) =>
            /\ Len(ret.val) = 4
            /\ \A i \in 1..4 : DestinationAt(Direction_cross, i) = Val(ret.val[i])
        /\ ret = Panic <=> \E i \in 1..4 : DestinationAt(Direction_cross, i) = Panic
        /\ ret = Panic => build = "debug"
    /\ pc = "neighbours_diag" =>
        /\ IsVal(ret) =>
            /\ Len(ret.val) = 4
            /\ \A i \in 1..4 : DestinationAt(Direction_diagonal, i) = Val(ret.val[i])
        /\ ret = Panic <=> \E i \in 1..4 : DestinationAt(Direction_diagonal, i) = Panic
        /\ ret = Panic => build = "debug"
    /\ Direction_all = Direction_cross \o Direction_diagonal
    /\ Cardinality({Direction_all[i] : i \in 1..Len(Direction_all)}) = 8

\* neighbours has returned the four distinct positions one unit away.
C12_Witness ==
    /\ pc = "neighbours"
    /\ dist = 1
    /\ ret = Val(<<Pos(pos.x, pos.y + 1), Pos(pos.x, pos.y - 1),
                   Pos(pos.x - 1, pos.y), Pos(pos.x + 1, pos.y)>>)

\* ====================================================================
\* Area::with_max against Area::new
\* ====================================================================

\* C14: for all max_x, max_y, Area::with_max(max_x, max_y) returns exactly
\* what Area::new(max_x, max_y, 0, 0) returns: the boundary error iff
\* max_x < 0 or max_y < 0, otherwise the Area with min_x = min_y = 0.
C14_WithMaxIsNewAtZero ==
    pc = "with_max" =>
        /\ ret = Area_new(args[1], args[2], 0, 0)
        /\ (ret = Err) <=> (args[1] < 0 \/ args[2] < 0)
        /\ ret # Err => ret = Ok(Area(args[1], args[2], 0, 0))

\* with_max has built the Area from (0, 0) to (2, 1).
C14_Witness ==
    /\ pc = "with_max"
    /\ ret = Ok(Area(2, 1, 0, 0))

\* ====================================================================
\* TryFrom between Pos<isize> and Pos<usize>
\* ====================================================================

\* Err(TryFromIntError)
RangeErr == [tag |-> "Err", error |-> "TryFromIntError"]

\* usize::try_from(v: isize) for s = FALSE, isize::try_from(v: usize) for
\* s = TRUE: the value itself when the destination type holds it.
Int_try_from(s, v) == IF v >= TMin(s) /\ v <= TMax(s) THEN Ok(v) ELSE RangeErr

\* Ok(Pos { x: U::try_from(value.x)?, y: U::try_from(value.y)? })
Pos_try_from(s, value) ==
    LET x == Int_try_from(s, value.x)
        y == Int_try_from(s, value.y)
    IN  IF x = RangeErr THEN RangeErr
        ELSE IF y = RangeErr THEN RangeErr
        ELSE Ok(Pos(x.val, y.val))

PosIdx_try_from_saturating(value) ==
    Ok(Pos(IF value.x < 0 THEN 0 ELSE value.x, IF value.y < 0 THEN 0 ELSE value.y))

\* impl TryFrom<SignedPosIdx> for PosIdx
PosIdx_try_from(value) == Pos_try_from(FALSE, value)

\* impl TryFrom<PosIdx> for SignedPosIdx
SignedPosIdx_try_from(value) == Pos_try_from(TRUE, value)

\* A position of either representation; signed tells which one.
InitConv ==
    /\ build = "release"
    /\ signed \in BOOLEAN
    /\ pc = "init"
    /\ args = NoValue
    /\ area = NoValue
    /\ pos \in PosSet(signed)
    /\ dir = NoValue
    /\ dist = 0
    /\ input = <<>>
    /\ iter = NoValue
    /\ out = <<>>
    /\ ret = NoValue

TryFromSigned ==
    /\ pc = "init"
    /\ signed
    /\ pc' = "try_from_signed"
    /\ ret' = PosIdx_try_from(pos)
    /\ UNCHANGED <<build, signed, args, area, pos, dir, dist, input, iter, out>>

TryFromUnsigned ==
    /\ pc = "init"
    /\ ~signed
    /\ pc' = "try_from_unsigned"
    /\ ret' = SignedPosIdx_try_from(pos)
    /\ UNCHANGED <<build, signed, args, area, pos, dir, dist, input, iter, out>>

NextConv == TryFromSigned \/ TryFromUnsigned

SpecConv == InitConv /\ [][NextConv]_vars

\* C13: converting a position between the signed and the unsigned
\* representation is all-or-nothing: signed-to-unsigned succeeds iff x >= 0
\* and y >= 0, unsigned-to-signed succeeds iff x and y are at most the
\* signed maximum; on success both components keep their value, and
\* otherwise the whole conversion is a range error.
C13_ConversionAllOrNothing ==
    /\ pc = "try_from_signed" =>
        /\ (ret.tag = "Ok") <=> (pos.x >= 0 /\ pos.y >= 0)
        /\ ret.tag = "Ok" => ret = Ok(pos)
        /\ ret.tag # "Ok" => ret = RangeErr
    /\ pc = "try_from_unsigned" =>
        /\ (ret.tag = "Ok") <=> (pos.x <= TMax(TRUE) /\ pos.y <= TMax(TRUE))
        /\ ret.tag = "Ok" => ret = Ok(pos)
        /\ ret.tag # "Ok" => ret = RangeErr

\* A signed position with a valid x and a negative y has been refused.
C13_Witness ==
    /\ pc = "try_from_signed"
    /\ pos.x > 0
    /\ pos.y < 0
    /\ ret = RangeErr

\* ====================================================================
\* Pos::manhattan (signed T only)
\* ====================================================================

\* Signed::abs: -v for a negative v, which overflows for T::MIN.
Abs(s, b, v) == IF v < 0 THEN Arith(s, b, -v) ELSE Val(v)

\* The operands of + are evaluated left to right; the first panic ends the call.
AbsDiff(s, b, x, y) ==
    LET d == Sub(s, b, x, y)
    IN  IF IsVal(d) THEN Abs(s, b, d.val) ELSE Panic

Pos_manhattan_unsigned_y(s, b, p, other) ==
    LET dx == AbsDiff(s, b, p.x, other.x)
        dy == Sub(s, b, p.y, other.y)
    IN  IF IsVal(dx) /\ IsVal(dy) THEN Add(s, b, dx.val, dy.val) ELSE Panic

\* (self.x - other.x).abs() + (self.y - other.y).abs()
Pos_manhattan(s, b, p, other) ==
    LET dx == AbsDiff(s, b, p.x, other.x)
        dy == AbsDiff(s, b, p.y, other.y)
    IN  IF IsVal(dx) /\ IsVal(dy) THEN Add(s, b, dx.val, dy.val) ELSE Panic

\* Two signed positions: self in pos, other in args.
InitManhattan ==
    /\ build \in Builds
    /\ signed = TRUE
    /\ pc = "init"
    /\ args \in PosSet(TRUE)
    /\ area = NoValue
    /\ pos \in PosSet(TRUE)
    /\ dir = NoValue
    /\ dist = 0
    /\ input = <<>>
    /\ iter = NoValue
    /\ out = <<>>
    /\ ret = NoValue

Manhattan ==
    /\ pc = "init"
    /\ pc' = "manhattan"
    /\ ret' = Pos_manhattan(signed, build, pos, args)
    /\ UNCHANGED <<build, signed, args, area, pos, dir, dist, input, iter, out>>

NextManhattan == Manhattan

SpecManhattan == InitManhattan /\ [][NextManhattan]_vars

Magnitude(v) == IF v < 0 THEN -v ELSE v

\* |p.x - q.x| + |p.y - q.y| as a mathematical integer.
Taxicab(p, q) == Magnitude(p.x - q.x) + Magnitude(p.y - q.y)

\* C15 as stated: for all signed positions p and q, p.manhattan(q) is
\* |p.x - q.x| + |p.y - q.y|; so it is symmetric, non-negative, and zero
\* iff p == q.
C15_ManhattanAsStated ==
    pc = "manhattan" =>
        /\ ret = Val(Taxicab(pos, args))
        /\ ret = Pos_manhattan(signed, build, args, pos)
        /\ IsVal(ret) /\ ret.val >= 0
        /\ ret = Val(0) <=> pos = args

\* C15 (amended): p.manhattan(q) is |p.x - q.x| + |p.y - q.y| (hence
\* non-negative, and zero iff p == q) whenever that sum is at most T::MAX;
\* when the sum exceeds T::MAX the call overflows: it panics in a build
\* with overflow checks and otherwise returns a value that is not the
\* distance.  In every case p.manhattan(q) and q.manhattan(p) end alike.
C15_ManhattanWhenRepresentable ==
    pc = "manhattan" =>
        /\ Taxicab(pos, args) <= TMax(TRUE) =>
            /\ ret = Val(Taxicab(pos, args))
            /\ ret.val >= 0
            /\ ret.val = 0 <=> pos = args
        /\ Taxicab(pos, args) > TMax(TRUE) =>
            /\ build = "debug" => ret = Panic
            /\ build = "release" => IsVal(ret) /\ ret.val # Taxicab(pos, args)
        /\ ret = Pos_manhattan(signed, build, args, pos)

\* manhattan has measured a distance of 3 between positions that differ
\* on both axes, in opposite senses.
C15_Witness ==
    /\ pc = "manhattan"
    /\ pos.x < args.x
    /\ pos.y > args.y
    /\ ret = Val(3)

\* ====================================================================
\* Corner accessors of Area
\* ====================================================================

Area_top_left_low(a) == Pos(a.min_x, a.min_y)

Area_top_left(a) == Pos(a.min_x, a.max_y)
Area_top_right(a) == Pos(a.max_x, a.max_y)
Area_bottom_left(a) == Pos(a.min_x, a.min_y)

Area_bottom_right_high(a) == Pos(a.max_x, a.max_y)

Area_bottom_right(a) == Pos(a.max_x, a.min_y)

InitCorners ==
    /\ build = "release"
    /\ signed = TRUE
    /\ pc = "init"
    /\ args = NoValue
    /\ area \in AreaSet(TRUE)
    /\ pos = NoValue
    /\ dir = NoValue
    /\ dist = 0
    /\ input = <<>>
    /\ iter = NoValue
    /\ out = <<>>
    /\ ret = NoValue

TopLeft ==
    /\ pc = "init"
    /\ pc' = "top_left"
    /\ ret' = Area_top_left(area)
    /\ UNCHANGED <<build, signed, args, area, pos, dir, dist, input, iter, out>>

TopRight ==
    /\ pc = "init"
    /\ pc' = "top_right"
    /\ ret' = Area_top_right(area)
    /\ UNCHANGED <<build, signed, args, area, pos, dir, dist, input, iter, out>>

BottomLeft ==
    /\ pc = "init"
    /\ pc' = "bottom_left"
    /\ ret' = Area_bottom_left(area)
    /\ UNCHANGED <<build, signed, args, area, pos, dir, dist, input, iter, out>>

BottomRight ==
    /\ pc = "init"
    /\ pc' = "bottom_right"
    /\ ret' = Area_bottom_right(area)
    /\ UNCHANGED <<build, signed, args, area, pos, dir, dist, input, iter, out>>

NextCorners == TopLeft \/ TopRight \/ BottomLeft \/ BottomRight

SpecCorners == InitCorners /\ [][NextCorners]_vars

\* C16: for every Area, top_left() == (min_x, max_y), top_right() ==
\* (max_x, max_y), bottom_left() == (min_x, min_y) and bottom_right() ==
\* (max_x, min_y); for an Area with min <= max on both axes each of the
\* four corners satisfies has and on_boundary.
C16_CornersLargerYIsTop ==
    /\ pc = "top_left" => ret = Pos(area.min_x, area.max_y)
    /\ pc = "top_right" => ret = Pos(area.max_x, area.max_y)
    /\ pc = "bottom_left" => ret = Pos(area.min_x, area.min_y)
    /\ pc = "bottom_right" => ret = Pos(area.max_x, area.min_y)
    /\ pc # "init" /\ WellFormed(area) =>
        /\ Area_has(area, ret)
        /\ Area_on_boundary(area, ret)

\* top_left has answered for an Area that is more than one row high, where
\* the top and the bottom corner differ.
C16_Witness ==
    /\ pc = "top_left"
    /\ WellFormed(area)
    /\ area.min_y < area.max_y
    /\ ret.y = area.max_y

\* ====================================================================
\* Turns of a Direction against the geometry of Pos::destination
\* ====================================================================

\* Pos::origin()
Pos_origin == Pos(Zero, Zero)

\* A chain of turns on a Direction, or a destination call and the call back
\* along the opposite Direction.
InitRot == InitDir \/ InitPos

NextRot == NextDir \/ NextPos

SpecRot == InitRot /\ [][NextRot]_vars

\* (dx, dy) of a Direction: origin.destination(1, d) over a signed T.
Offset(d) == Pos_destination(TRUE, "debug", Pos_origin, One, d).val

\* The Direction in hand before the last turn.
OneTurnAgo == out[Len(out)]

LastFourTurns ==
    IF Len(input) >= 4 THEN SubSeq(input, Len(input) - 3, Len(input)) ELSE <<>>

FourTurnsAgo == out[Len(out) - 3]

\* What C17 says of the turns alone: the offsets of turn_back, turn_left
\* and turn_right are (-dx, -dy), (-dy, dx) and (dy, -dx); two left turns
\* are a turn back and four left turns give the Direction started from.
TurnsRotateOffsets ==
    /\ pc = "turn_back" =>
        Offset(dir) = Pos(-Offset(OneTurnAgo).x, -Offset(OneTurnAgo).y)
    /\ pc = "turn_left" =>
        Offset(dir) = Pos(-Offset(OneTurnAgo).y, Offset(OneTurnAgo).x)
    /\ pc = "turn_right" =>
        Offset(dir) = Pos(Offset(OneTurnAgo).y, -Offset(OneTurnAgo).x)
    /\ LastTwoTurns = <<"turn_left", "turn_left">> =>
        dir = Direction_turn_back(TwoTurnsAgo)
    /\ LastFourTurns = <<"turn_left", "turn_left", "turn_left", "turn_left">> =>
        dir = FourTurnsAgo

\* C17 as stated: with (dx, dy) = origin.destination(1, d), the offset of
\* d.turn_back() is (-dx, -dy), of d.turn_left() is (-dy, dx) and of
\* d.turn_right() is (dy, -dx); turn_left twice is turn_back, four times the
\* identity; and p.destination(k, d).destination(k, d.turn_back()) == p for
\* every p and k.
C17_RotationAsStated ==
    /\ TurnsRotateOffsets
    /\ pc = "destination" => IsVal(ret)
    /\ pc = "destination_back" => ret = Val(pos)

\* C17 (amended): the offsets of the turns and the two identities of
\* turn_left are as stated; p.destination(k, d).destination(k,
\* d.turn_back()) == p whenever the inner call returns, which it fails to
\* do (it panics) exactly when p moved k along d has a coordinate outside
\* T's range in a build with overflow checks.
C17_RotationWhenReturned ==
    /\ TurnsRotateOffsets
    /\ pc = "destination" =>
        (ret = Panic <=> (build = "debug" /\ ~InT(signed, Moved(pos, dist, dir))))
    /\ pc = "destination_back" => ret = Val(pos)

\* Two units to the top left and the same two units back along
\* turn_back(TopLeft) have ended on the position started from.
C17_Witness ==
    /\ pc = "destination_back"
    /\ dir = "TopLeft"
    /\ dist = 2
    /\ ret = Val(pos)

\* ====================================================================
\* Cursor of AreaIterator
\* ====================================================================

\* C18 as stated: in every state reached from into_iter() of an Area with
\* min <= max on both axes by calls of next, min_x <= current_x <= max_x
\* and min_y <= current_y <= max_y + 1; current_x is reset to min_x exactly
\* on the step that emits x == max_x, the step that adds 1 to current_y;
\* and next returns None exactly in the states where current_y > max_y
\* (a call that returns None leaves the cursor where it was, and a call
\* that returns a position returns the cursor it started from).
C18_CursorAsStated ==
    (pc \in {"into_iter", "next", "panicked"} /\ WellFormed(area)) =>
        /\ area.min_x <= iter.current_x /\ iter.current_x <= area.max_x
        /\ area.min_y <= iter.current_y /\ iter.current_y <= area.max_y + 1
        /\ pc # "into_iter" =>
            /\ ret # Panic
            /\ ret = None => iter.current_y > area.max_y
            /\ ret.tag = "Some" => ret.val.y <= area.max_y
            /\ (ret.tag = "Some" /\ ret.val.x = area.max_x) =>
                /\ iter.current_x = area.min_x
                /\ iter.current_y = ret.val.y + 1
            /\ (ret.tag = "Some" /\ ret.val.x # area.max_x) =>
                /\ iter.current_x = ret.val.x + 1
                /\ iter.current_y = ret.val.y

\* The same statement for the areas that stop short of T::MAX on the y
\* axis, where `current_y + 1` never leaves T: there it holds.
C18_CursorBelowMaxY ==
    (pc \in {"into_iter", "next", "panicked"} /\ WellFormed(area)
        /\ area.max_y < TMax(signed)) =>
        /\ area.min_x <= iter.current_x /\ iter.current_x <= area.max_x
        /\ area.min_y <= iter.current_y /\ iter.current_y <= area.max_y + 1
        /\ pc # "into_iter" =>
            /\ ret # Panic
            /\ ret = None => iter.current_y > area.max_y
            /\ ret.tag = "Some" => ret.val.y <= area.max_y
            /\ (ret.tag = "Some" /\ ret.val.x = area.max_x) =>
                /\ iter.current_x = area.min_x
                /\ iter.current_y = ret.val.y + 1
            /\ (ret.tag = "Some" /\ ret.val.x # area.max_x) =>
                /\ iter.current_x = ret.val.x + 1
                /\ iter.current_y = ret.val.y

\* The cursor has just wrapped to the next row of a two-column area.
C18_Witness ==
    /\ pc = "next"
    /\ WellFormed(area)
    /\ area.max_x = area.min_x + 1
    /\ ret.tag = "Some"
    /\ ret.val.x = area.max_x
    /\ iter.current_x = area.min_x
    /\ iter.current_y = ret.val.y + 1
    /\ iter.current_y <= area.max_y

\* ====================================================================
\* Steps of LineIterator
\* ====================================================================

\* C19: every call of next that returns a position decreases distance by
\* exactly 1 and leaves direction unchanged; next returns None iff distance
\* is 0, and then leaves current, direction and distance unchanged, so
\* distance never goes below 0 and an exhausted iterator stays exhausted.
C19_LineStep ==
    [][LineNext =>
        /\ ret'.tag = "Some" =>
            /\ iter'.distance = iter.distance - 1
            /\ iter'.direction = iter.direction
        /\ ret' = None <=> iter.distance = 0
        /\ ret' = None => iter' = iter
        /\ iter'.distance >= 0
        /\ (pc = "next" /\ ret = None) => (ret' = None /\ iter'.distance = 0)
    ]_vars

\* A line of two positions has been walked to the end.
C19_Witness ==
    /\ pc = "next"
    /\ dist = 2
    /\ Len(out) = 2
    /\ ret = None
    /\ iter.distance = 0

\* ====================================================================
\* Exhaustion of AreaIterator
\* ====================================================================

\* C20: no call of next changes the iterator's area field, and once next
\* has returned None for an iterator over an Area with min <= max on both
\* axes, every later call returns None and leaves current_x and current_y
\* unchanged.
C20_ExhaustionAbsorbing ==
    [][IterNext =>
        /\ iter'.area = iter.area
        /\ (pc = "next" /\ ret = None /\ WellFormed(iter.area)) =>
            /\ ret' = None
            /\ iter'.current_x = iter.current_x
            /\ iter'.current_y = iter.current_y
    ]_vars

\* A well-formed area of more than one position has been walked to the end.
C20_Witness ==
    /\ pc = "next"
    /\ WellFormed(iter.area)
    /\ ret = None
    /\ Len(out) > 1
    /\ iter.current_y > iter.area.max_y

\* ====================================================================
\* AreaIterator at the edge of T
\* ====================================================================

\* The position (max_x, max_y), the last of the row-major walk.
LastPos(a) == Pos(a.max_x, a.max_y)

\* C21 as stated: for every Area with min <= max on both axes over a
\* fixed-width T, areas with max_x or max_y equal to T::MAX included, the
\* iterator is finite: after yielding (max_x, max_y) the next call returns
\* None (so nothing is yielded after it), and no cursor increment
\* (current_x + 1 or current_y + 1) gives a value outside T's range: no
\* call panics, and the cursor a call leaves is the plain sum.
C21_FiniteAsStated ==
    (pc \in {"next", "panicked"} /\ WellFormed(area)) =>
        /\ ret # Panic
        /\ \A k \in 1..Len(out) : out[k] = LastPos(area) => k = Len(out)
        /\ (Len(out) > 0 /\ out[Len(out)] = LastPos(area)) =>
            (ret = Some(LastPos(area)) \/ ret = None)
        /\ (ret.tag = "Some" /\ ret.val.x >= area.max_x) =>
            iter.current_y = ret.val.y + 1
        /\ (ret.tag = "Some" /\ ret.val.x < area.max_x) =>
            iter.current_x = ret.val.x + 1

\* The same statement for the areas whose max_y is below T::MAX (max_x may
\* be T::MAX: current_x + 1 is computed only below max_x): there it holds.
C21_FiniteBelowMaxY ==
    (pc \in {"next", "panicked"} /\ WellFormed(area) /\ area.max_y < TMax(signed)) =>
        /\ ret # Panic
        /\ \A k \in 1..Len(out) : out[k] = LastPos(area) => k = Len(out)
        /\ (Len(out) > 0 /\ out[Len(out)] = LastPos(area)) =>
            (ret = Some(LastPos(area)) \/ ret = None)
        /\ (ret.tag = "Some" /\ ret.val.x >= area.max_x) =>
            iter.current_y = ret.val.y + 1
        /\ (ret.tag = "Some" /\ ret.val.x < area.max_x) =>
            iter.current_x = ret.val.x + 1

\* An area that reaches T::MAX on the x axis only has been walked to the end.
C21_Witness ==
    /\ pc = "next"
    /\ WellFormed(area)
    /\ area.max_x = TMax(signed)
    /\ area.min_x < area.max_x
    /\ area.max_y < TMax(signed)
    /\ out[Len(out)] = LastPos(area)
    /\ ret = None

\* ====================================================================
\* LineIterator at the edge of T
\* ====================================================================

\* p.destination(0, d), ..., p.destination(n - 1, d) are all representable
\* in T, for the p, n and d the iterator was made from.
LineRepresentable ==
    \A k \in 0..(dist - 1) : InT(signed, Moved(pos, k, dir))

\* C22 as stated: whenever each of the n positions p.destination(0, d),
\* ..., p.destination(n - 1, d) is representable in T, p.line_iter(n, d)
\* yields all n of them and no coordinate it computes on the way lies
\* outside T's range: no call panics, and the position a call leaves in
\* `current` is the plain offset, not a wrapped one.
C22_LineAsStated ==
    (pc \in {"next", "panicked"} /\ LineRepresentable) =>
        /\ ret # Panic
        /\ ret = None => Len(out) = dist
        /\ \A k \in 1..Len(out) : out[k] = Moved(pos, k - 1, dir)
        /\ iter.current = Moved(pos, Len(out), dir)

\* The same statement when p.destination(n, d), the position one step past
\* the last one yielded, is representable as well: there it holds.
C22_LineWhenNextFits ==
    (pc \in {"next", "panicked"} /\ LineRepresentable
        /\ InT(signed, Moved(pos, dist, dir))) =>
        /\ ret # Panic
        /\ ret = None => Len(out) = dist
        /\ \A k \in 1..Len(out) : out[k] = Moved(pos, k - 1, dir)
        /\ iter.current = Moved(pos, Len(out), dir)

\* A walk of two steps to the left, with room for a third, has ended
\* over an unsigned T.
C22_Witness ==
    /\ pc = "next"
    /\ ~signed
    /\ dir = "Left"
    /\ dist = 2
    /\ pos.x = 3
    /\ out = <<pos, Pos(2, pos.y)>>
    /\ ret = None

\* ====================================================================
\* AreaIterator over an Area that Area::new would refuse
\* ====================================================================

\* C23 as stated: for an Area built from its public fields, past the check
\* of Area::new: if min_y > max_y the iterator yields nothing; if
\* min_y <= max_y and min_x > max_x it yields exactly one position
\* (min_x, y) for each y from min_y to max_y in ascending order,
\* max_y - min_y + 1 positions of which none satisfies has, and then
\* returns None.
C23_IllFormedAsStated ==
    /\ (pc \in {"next", "panicked"} /\ area.min_y > area.max_y) =>
        /\ ret = None
        /\ out = <<>>
    /\ (pc \in {"next", "panicked"} /\ area.min_y <= area.max_y
            /\ area.min_x > area.max_x) =>
        /\ ret # Panic
        /\ Len(out) <= RowCount(area)
        /\ ret = None => Len(out) = RowCount(area)
        /\ \A k \in 1..Len(out) :
            /\ out[k] = Pos(area.min_x, area.min_y + k - 1)
            /\ ~Area_has(area, out[k])

\* The same statement for the areas whose max_y is below T::MAX, where
\* `current_y + 1` never leaves T: there it holds.
C23_IllFormedBelowMaxY ==
    /\ (pc \in {"next", "panicked"} /\ area.min_y > area.max_y) =>
        /\ ret = None
        /\ out = <<>>
    /\ (pc \in {"next", "panicked"} /\ area.min_y <= area.max_y
            /\ area.min_x > area.max_x /\ area.max_y < TMax(signed)) =>
        /\ ret # Panic
        /\ Len(out) <= RowCount(area)
        /\ ret = None => Len(out) = RowCount(area)
        /\ \A k \in 1..Len(out) :
            /\ out[k] = Pos(area.min_x, area.min_y + k - 1)
            /\ ~Area_has(area, out[k])

\* An Area with min_x > max_x and three rows has been walked to the end.
C23_Witness ==
    /\ pc = "next"
    /\ area.min_x > area.max_x
    /\ RowCount(area) = 3
    /\ Len(out) = 3
    /\ ret = None

\* ====================================================================
\* Corners and Area::from_pos, one after the other
\* ====================================================================

\* Either an Area whose corners are taken, or two positions (top-left in
\* args[1], args[2], bottom-right in args[3], args[4]) handed to from_pos.
InitRound ==
    /\ build = "release"
    /\ signed = TRUE
    /\ \/ /\ pc = "have_area"
          /\ area \in AreaSet(TRUE)
          /\ args = NoValue
       \/ /\ pc = "have_corners"
          /\ area = NoValue
          /\ args \in [1..4 -> T(TRUE)]
    /\ pos = NoValue
    /\ dir = NoValue
    /\ dist = 0
    /\ input = <<>>
    /\ iter = NoValue
    /\ out = <<>>
    /\ ret = NoValue

\* Area::from_pos(a.top_left(), a.bottom_right())
FromCorners ==
    /\ pc = "have_area"
    /\ pc' = "from_corners"
    /\ ret' = Area_from_pos(Area_top_left(area), Area_bottom_right(area))
    /\ UNCHANGED <<build, signed, args, area, pos, dir, dist, input, iter, out>>

\* Area::from_pos(tl, br)
FromPosOfCorners ==
    /\ pc = "have_corners"
    /\ pc' = "built"
    /\ ret' = Area_from_pos(Pos(args[1], args[2]), Pos(args[3], args[4]))
    /\ UNCHANGED <<build, signed, args, area, pos, dir, dist, input, iter, out>>

\* a.top_left() and a.bottom_right() of the Area from_pos returned.
CornersOfBuilt ==
    /\ pc = "built"
    /\ ret.tag = "Ok"
    /\ pc' = "corners_of"
    /\ out' = <<Area_top_left(ret.val), Area_bottom_right(ret.val)>>
    /\ UNCHANGED <<build, signed, args, area, pos, dir, dist, input, iter, ret>>

NextRound == FromCorners \/ FromPosOfCorners \/ CornersOfBuilt

SpecRound == InitRound /\ [][NextRound]_vars

\* C24: for every Area a with min_x <= max_x and min_y <= max_y,
\* from_pos(a.top_left(), a.bottom_right()) succeeds and returns an Area
\* equal to a; and whenever from_pos(tl, br) returns Ok(a),
\* a.top_left() == tl and a.bottom_right() == br.
C24_CornerRoundTrip ==
    /\ (pc = "from_corners" /\ WellFormed(area)) => ret = Ok(area)
    /\ pc = "corners_of" =>
        /\ out[1] = Pos(args[1], args[2])
        /\ out[2] = Pos(args[3], args[4])

\* from_pos has accepted two corners that differ on both axes, and the
\* corners of the Area it built have been read back.
C24_Witness ==
    /\ pc = "corners_of"
    /\ args[1] < args[3]
    /\ args[2] > args[4]
    /\ out = <<Pos(args[1], args[2]), Pos(args[3], args[4])>>

====
